---- MODULE Spec2Model ----
(***************************************************************************)
(* The reporting blocks of robusta (src/src/robusta/core/reporting/        *)
(* blocks.py) as a state machine.  One block object is live at a time      *)
(* (self); every action is a constructor call or a method call on the      *)
(* live object, and records its arguments (call) and what it returned or   *)
(* raised (ret).                                                           *)
(*                                                                         *)
(* A Python str is a sequence of one-character strings; None, objects and  *)
(* results are records tagged by a field, so that values of different      *)
(* Python types are never compared with each other.                        *)
(***************************************************************************)
EXTENDS Integers, Sequences, FiniteSets

VARIABLES self, call, ret

vars == <<self, call, ret>>

----------------------------------------------------------------------------
(* Bounds of the model. *)

\* longest short text handed to MarkdownBlock (texts near the size limit are extra)
MaxText == 3
\* how far below and above BLOCK_SIZE_LIMIT the long texts' lengths range
Margin == 2
\* most items of a ListBlock
MaxItems == 2
\* most change records of a KubernetesDiffBlock
MaxDiffs == 3
\* most rows of a TableBlock
MaxRows == 2
\* widest table_max_width handed to to_table_string
MaxTableWidth == 6
\* longest contents of letters and newlines handed to __trim_rows
MaxLen == 9
\* longest contents with carriage returns handed to __trim_rows
MaxCrLen == 4
\* largest max_chars handed to __trim_rows
MaxChars == 9
\* largest score of a ScanReportBlock
MaxScore == 100
\* most lines, and the width of a line, of the text tabulate renders
MaxLines == 2
LineWidth == 3
\* largest max_chars handed to to_markdown
MaxMarkdownChars == 13
\* most pods of a resource
MaxPods == 2

----------------------------------------------------------------------------
(* Python values. *)

None == [t |-> "None"]

IsNone(v) == v.t = "None"

\* no block has been constructed yet
NoObject == [cls |-> "None"]

\* what a call produced: nothing yet, a returned value, or a raised exception
NoResult == [t |-> "nothing"]

Return(v) == [t |-> "return", val |-> v]

\* exception e, raised in function at
Raise(e, at) == [t |-> "raise", exc |-> e, at |-> at]

Max(S) == CHOOSE x \in S : \A y \in S : y <= x

Min(S) == CHOOSE x \in S : \A y \in S : x <= y

\* every sequence over S of length at most n
SeqUpTo(S, n) == UNION {[1..k -> S] : k \in 0..n}

\* a str of n copies of character c
Fill(c, n) == [i \in 1..n |-> c]

\* a str value, where None may stand in its place (Optional[str])
Str(s) == [t |-> "str", s |-> s]

RECURSIVE IntToStr(_)
\* str(n) of an int: its decimal digits, after a "-" when negative
IntToStr(n) ==
    LET digit(d) == <<"0", "1", "2", "3", "4", "5", "6", "7", "8", "9">>[d + 1]
    IN IF n < 0 THEN <<"-">> \o IntToStr(-n)
       ELSE IF n < 10 THEN <<digit(n)>>
       ELSE IntToStr(n \div 10) \o <<digit(n % 10)>>

\* str.lower(), for ASCII letters
Lower(s) ==
    LET upper == <<"A", "B", "C", "D", "E", "F", "G", "H", "I", "J", "K", "L", "M",
                   "N", "O", "P", "Q", "R", "S", "T", "U", "V", "W", "X", "Y", "Z">>
        lower == <<"a", "b", "c", "d", "e", "f", "g", "h", "i", "j", "k", "l", "m",
                   "n", "o", "p", "q", "r", "s", "t", "u", "v", "w", "x", "y", "z">>
    IN [i \in 1..Len(s) |->
          IF \E k \in 1..Len(upper) : upper[k] = s[i]
          THEN lower[CHOOSE k \in 1..Len(upper) : upper[k] = s[i]]
          ELSE s[i]]

RECURSIVE Join(_, _)
\* sep.join(strs)
Join(sep, strs) ==
    IF Len(strs) = 0 THEN <<>>
    ELSE IF Len(strs) = 1 THEN strs[1]
    ELSE strs[1] \o sep \o Join(sep, Tail(strs))

----------------------------------------------------------------------------
(* MarkdownBlock *)

BLOCK_SIZE_LIMIT == 2997

RECURSIVE SplitNewline(_)
\* the lines re.MULTILINE's ^ and $ delimit: text split at every "\n"
SplitNewline(text) ==
    IF \A i \in 1..Len(text) : text[i] # "\n" THEN <<text>>
    ELSE LET i == Min({j \in 1..Len(text) : text[j] = "\n"})
         IN <<SubSeq(text, 1, i - 1)>> \o SplitNewline(SubSeq(text, i + 1, Len(text)))

\* the leading blanks of a line
Indent(line) ==
    Max({k \in 0..Len(line) : \A j \in 1..k : line[j] = " "})

\* textwrap.dedent for texts whose only white space is " " and "\n": lines of
\* blanks only become empty, then the indentation common to the other lines
\* is removed from each of them
textwrap_dedent(text) ==
    LET lines == SplitNewline(text)
        blank(l) == \A j \in 1..Len(l) : l[j] = " "
        norm == [k \in 1..Len(lines) |-> IF blank(lines[k]) THEN <<>> ELSE lines[k]]
        indents == {Indent(norm[k]) : k \in {j \in 1..Len(norm) : norm[j] # <<>>}}
        margin == IF indents = {} THEN 0 ELSE Min(indents)
        cut == [k \in 1..Len(norm) |->
                  IF norm[k] = <<>> THEN <<>>
                  ELSE SubSeq(norm[k], margin + 1, Len(norm[k]))]
    IN Join(<<"\n">>, cut)

\* MarkdownBlock.__init__: the block built, or the exception raised
MarkdownBlock(text, dedent) ==
    IF dedent /\ Len(text) = 0 THEN Raise("IndexError", "MarkdownBlock.__init__")
    ELSE LET t1 == IF dedent
                   THEN textwrap_dedent(IF text[1] = "\n" THEN Tail(text) ELSE text)
                   ELSE text
             t2 == IF Len(t1) >= BLOCK_SIZE_LIMIT
                   THEN SubSeq(t1, 1, BLOCK_SIZE_LIMIT) \o <<".", ".", ".">>
                   ELSE t1
         IN Return([cls |-> "MarkdownBlock", text |-> t2])

\* the texts the model hands to MarkdownBlock: every short text of blanks,
\* newlines and letters, and one-line texts around the size limit
ShortTexts == SeqUpTo({"a", " ", "\n"}, MaxText)

LongTexts ==
    {Fill("a", n) : n \in (BLOCK_SIZE_LIMIT - Margin)..(BLOCK_SIZE_LIMIT + Margin + 3)}

\* MarkdownBlock(text, dedent)
NewMarkdownBlock ==
    /\ call.op = "none"
    /\ \E text \in ShortTexts \cup LongTexts, dedent \in BOOLEAN :
           /\ dedent => text \in ShortTexts
           /\ LET r == MarkdownBlock(text, dedent)
              IN /\ self' = IF r.t = "return" THEN r.val ELSE self
                 /\ call' = [op |-> "MarkdownBlock", text |-> text, dedent |-> dedent]
                 /\ ret' = IF r.t = "return" THEN NoResult ELSE r

----------------------------------------------------------------------------
(* ListBlock *)

\* ListBlock.__init__
ListBlock(items) == [cls |-> "ListBlock", items |-> items]

\* a slip in the bullet: the blank after the "*" is missing
ListBlock_to_markdown_NoBlank(obj) ==
    LET mrkdwn == [i \in 1..Len(obj.items) |-> <<"*">> \o obj.items[i]]
    IN MarkdownBlock(Join(<<"\n">>, mrkdwn), FALSE)

\* ListBlock.to_markdown
ListBlock_to_markdown(obj) ==
    LET mrkdwn == [i \in 1..Len(obj.items) |-> <<"*", " ">> \o obj.items[i]]
    IN MarkdownBlock(Join(<<"\n">>, mrkdwn), FALSE)

\* the items of the model's lists: short ones, and ones that bring the
\* bulleted text to the size limit
Items ==
    {<<"a">>, <<"b">>, <<>>}
        \cup {Fill("a", n) : n \in (BLOCK_SIZE_LIMIT - 2 - Margin)..(BLOCK_SIZE_LIMIT - 1)}

\* ListBlock(items)
NewListBlock ==
    /\ call.op = "none"
    /\ \E items \in SeqUpTo(Items, MaxItems) :
           /\ self' = ListBlock(items)
           /\ call' = [op |-> "ListBlock", items |-> items]
           /\ ret' = NoResult

\* self.to_markdown() on a ListBlock
ToMarkdownList ==
    /\ self.cls = "ListBlock"
    /\ call' = [op |-> "ListBlock.to_markdown"]
    /\ ret' = ListBlock_to_markdown(self)
    /\ UNCHANGED self

----------------------------------------------------------------------------
(* KubernetesDiffBlock *)

\* hikaru's DiffType, as far as the block tells its members apart
DiffTypes == {"ADDED", "REMOVED", "MODIFIED"}

\* a hikaru DiffDetail
DiffDetails == [diff_type : DiffTypes]

\* a HikaruDocumentBase snapshot; kind is "" for an object without one
K8sObject(kind) == [t |-> "obj", kind |-> kind]

\* hikaru.get_yaml(obj): the snapshot's YAML document, never empty
get_yaml(obj) == <<"k", "i", "n", "d", ":", " ">> \o obj.kind \o <<"\n">>

\* KubernetesDiffBlock._obj_to_content
_obj_to_content(obj) ==
    IF IsNone(obj) THEN <<>> ELSE get_yaml(obj)

\* KubernetesDiffBlock._obj_to_name; namespace is None or a str
_obj_to_name(obj, name, namespace) ==
    IF IsNone(obj) THEN <<>>
    ELSE LET kind == Lower(obj.kind)
             n1 == IF kind # <<>> THEN kind \o <<"/">> ELSE <<>>
             n2 == IF ~IsNone(namespace) /\ namespace.s # <<>>
                   THEN n1 \o namespace.s \o <<"/">>
                   ELSE n1
         IN n2 \o name \o <<".", "y", "a", "m", "l">>

\* len([d for d in interesting_diffs if d.diff_type == diff_type])
CountDiffType(interesting_diffs, diff_type) ==
    Cardinality({i \in 1..Len(interesting_diffs) :
                   interesting_diffs[i].diff_type = diff_type})

\* a miscount: the deletions are not taken off the modifications
DiffCounts_DeletionsKept(interesting_diffs) ==
    LET num_additions == CountDiffType(interesting_diffs, "ADDED")
        num_deletions == CountDiffType(interesting_diffs, "REMOVED")
    IN [num_additions |-> num_additions,
        num_deletions |-> num_deletions,
        num_modifications |-> Len(interesting_diffs) - num_additions]

\* the three counts KubernetesDiffBlock.__init__ derives
DiffCounts(interesting_diffs) ==
    LET num_additions == CountDiffType(interesting_diffs, "ADDED")
        num_deletions == CountDiffType(interesting_diffs, "REMOVED")
    IN [num_additions |-> num_additions,
        num_deletions |-> num_deletions,
        num_modifications |-> Len(interesting_diffs) - num_additions - num_deletions]

\* KubernetesDiffBlock.__init__
KubernetesDiffBlock(interesting_diffs, old, new, name, namespace) ==
    LET counts == DiffCounts(interesting_diffs)
        n_old == _obj_to_name(old, name, namespace)
        resource_name == IF n_old # <<>> THEN n_old ELSE _obj_to_name(new, name, namespace)
    IN [cls |-> "KubernetesDiffBlock",
        diffs |-> interesting_diffs,
        old |-> Str(_obj_to_content(old)),
        new |-> Str(_obj_to_content(new)),
        old_obj |-> old,
        new_obj |-> new,
        resource_name |-> Str(resource_name),
        num_additions |-> counts.num_additions,
        num_deletions |-> counts.num_deletions,
        num_modifications |-> counts.num_modifications]

\* KubernetesDiffBlock.get_description; the str returned is a sequence of
\* its pieces
get_description(obj) ==
    IF IsNone(obj.old) THEN <<"Resource created">>
    ELSE IF IsNone(obj.new) THEN <<"Resource deleted">>
    ELSE <<"Updates to significant fields: ">> \o IntToStr(obj.num_additions)
            \o <<" additions, ">> \o IntToStr(obj.num_deletions)
            \o <<" deletions, ">> \o IntToStr(obj.num_modifications)
            \o <<" changes.">>

\* the snapshots handed to the constructor: absent, with a kind, without one
Snapshots == {None, K8sObject(<<"P", "o", "d">>), K8sObject(<<>>)}

\* KubernetesDiffBlock(interesting_diffs, old, new, name, namespace)
NewKubernetesDiffBlock ==
    /\ call.op = "none"
    /\ \E interesting_diffs \in SeqUpTo(DiffDetails, MaxDiffs),
          old \in Snapshots, new \in Snapshots,
          namespace \in {None, Str(<<"n", "s">>)} :
           /\ self' = KubernetesDiffBlock(interesting_diffs, old, new, <<"w", "e", "b">>, namespace)
           /\ call' = [op |-> "KubernetesDiffBlock", interesting_diffs |-> interesting_diffs,
                       old |-> old, new |-> new, namespace |-> namespace]
           /\ ret' = NoResult

\* self.get_description() on a KubernetesDiffBlock
GetDescription ==
    /\ self.cls = "KubernetesDiffBlock"
    /\ call' = [op |-> "KubernetesDiffBlock.get_description"]
    /\ ret' = Return(get_description(self))
    /\ UNCHANGED self

----------------------------------------------------------------------------
(* TableBlock *)

\* an int as a row value
PyInt(n) == [t |-> "int", n |-> n]

\* str(val) of a row value
str(val) == IF val.t = "int" THEN IntToStr(val.n) ELSE val.s

\* custom_rendering.render_value: the display string of a raw value
render_value(renderer_type, value) ==
    IF renderer_type = "DATETIME" THEN Str(<<"T">> \o str(value)) ELSE value

\* TableBlock.__init__; column_renderers is None or the dict's items in order
TableBlock(rows, headers, column_renderers, table_name) ==
    [cls |-> "TableBlock",
     rows |-> rows,
     headers |-> headers,
     column_renderers |-> column_renderers,
     table_name |-> table_name,
     column_width |-> None]

\* sum(widths)
RECURSIVE sum(_)
sum(widths) == IF widths = <<>> THEN 0 ELSE Head(widths) + sum(Tail(widths))

\* a slip in the rounding: the quotient rounded up
IntOfQuotient_RoundedUp(a, b) == -((-a) \div b)

\* int(a / b) for b > 0: the quotient rounded towards zero
IntOfQuotient(a, b) == IF a >= 0 THEN a \div b ELSE -((-a) \div b)

\* a lookup that does not fail: position 0 for an x that is not in the list
index_OrFirst(list, x) ==
    IF \E i \in 1..Len(list) : list[i] = x
    THEN Return(Min({i \in 1..Len(list) : list[i] = x}) - 1)
    ELSE Return(0)

\* list.index(x): the first position (from 0) of x, or ValueError
index(list, x) ==
    IF \E i \in 1..Len(list) : list[i] = x
    THEN Return(Min({i \in 1..Len(list) : list[i] = x}) - 1)
    ELSE Raise("ValueError", "list.index")

RECURSIVE WidenByRow(_, _, _)
\* lines 251-252 for one row, from its idx-th value on (idx from 0): the
\* widths widened, or IndexError at a value beyond the last width
WidenByRow(columns_max_widths, row, idx) ==
    IF idx >= Len(row) THEN Return(columns_max_widths)
    ELSE IF idx >= Len(columns_max_widths)
    THEN Raise("IndexError", "TableBlock.__calc_max_width")
    ELSE LET w == Max({Len(str(row[idx + 1])), columns_max_widths[idx + 1]})
         IN WidenByRow([columns_max_widths EXCEPT ![idx + 1] = w], row, idx + 1)

RECURSIVE WidenByRows(_, _)
\* lines 250-252: the loop over the rows
WidenByRows(columns_max_widths, rendered_rows) ==
    IF rendered_rows = <<>> THEN Return(columns_max_widths)
    ELSE LET r == WidenByRow(columns_max_widths, Head(rendered_rows), 0)
         IN IF r.t = "raise" THEN r ELSE WidenByRows(r.val, Tail(rendered_rows))

\* a slip in the choice of the column: the last of the widest is shrunk
LimitWidest_LastWidest(columns_max_widths, table_max_width) ==
    IF sum(columns_max_widths) > table_max_width
    THEN LET largest_width == Max({columns_max_widths[i] :
                                     i \in 1..Len(columns_max_widths)})
             widest_column_idx == Max({i \in 1..Len(columns_max_widths) :
                                         columns_max_widths[i] = largest_width}) - 1
             diff == sum(columns_max_widths) - table_max_width
             shrunk == [columns_max_widths EXCEPT
                          ![widest_column_idx + 1] = largest_width - diff]
         IN IF shrunk[widest_column_idx + 1] < 0
            THEN Return([i \in 1..Len(shrunk) |->
                           IntOfQuotient(table_max_width, Len(shrunk))])
            ELSE Return(shrunk)
    ELSE Return(columns_max_widths)

\* lines 254-263: the widths brought under table_max_width
LimitWidest(columns_max_widths, table_max_width) ==
    IF sum(columns_max_widths) > table_max_width
    THEN IF columns_max_widths = <<>>
         THEN Raise("ValueError", "TableBlock.__calc_max_width")
         ELSE LET largest_width == Max({columns_max_widths[i] :
                                          i \in 1..Len(columns_max_widths)})
                  widest_column_idx == index(columns_max_widths, largest_width).val
                  diff == sum(columns_max_widths) - table_max_width
                  shrunk == [columns_max_widths EXCEPT
                               ![widest_column_idx + 1] = largest_width - diff]
              IN IF shrunk[widest_column_idx + 1] < 0
                 THEN Return([i \in 1..Len(shrunk) |->
                                IntOfQuotient(table_max_width, Len(shrunk))])
                 ELSE Return(shrunk)
    ELSE Return(columns_max_widths)

\* a slip in the first widths: the headers' lengths are left out
calc_max_width_HeadersIgnored(headers, rendered_rows, table_max_width) ==
    LET r == WidenByRows([i \in 1..Len(headers) |-> 0], rendered_rows)
    IN IF r.t = "raise" THEN r ELSE LimitWidest(r.val, table_max_width)

\* TableBlock.__calc_max_width
calc_max_width(headers, rendered_rows, table_max_width) ==
    LET r == WidenByRows([i \in 1..Len(headers) |-> Len(headers[i])], rendered_rows)
    IN IF r.t = "raise" THEN r ELSE LimitWidest(r.val, table_max_width)

\* TableBlock.__to_strings_rows
to_strings_rows(rows) ==
    [i \in 1..Len(rows) |-> [j \in 1..Len(rows[i]) |-> Str(str(rows[i][j]))]]

\* no copy at all: the list itself
deepcopy_SameObject(rows) == [val |-> rows, alias |-> TRUE]

\* copy.deepcopy(rows): a new list object with the same contents; alias tells
\* whether writing to the object writes to the list it was made from
deepcopy(rows) == [val |-> rows, alias |-> FALSE]

RECURSIVE RenderColumn(_, _, _, _)
\* lines 324-325 from row i on: the rows written so far, and what stopped the loop
RenderColumn(new_rows, column_idx, renderer_type, i) ==
    IF i > Len(new_rows) THEN [rows |-> new_rows, exc |-> None]
    ELSE IF column_idx >= Len(new_rows[i])
    THEN [rows |-> new_rows, exc |-> Raise("IndexError", "TableBlock.render_rows")]
    ELSE RenderColumn(
             [new_rows EXCEPT ![i][column_idx + 1] =
                  render_value(renderer_type, new_rows[i][column_idx + 1])],
             column_idx, renderer_type, i + 1)

RECURSIVE RenderColumns(_, _, _)
\* lines 322-325: the loop over the renderers
RenderColumns(new_rows, headers, column_renderers) ==
    IF column_renderers = <<>> THEN [rows |-> new_rows, exc |-> None]
    ELSE LET column_idx == index(headers, Head(column_renderers).column_name)
         IN IF column_idx.t = "raise" THEN [rows |-> new_rows, exc |-> column_idx]
            ELSE LET r == RenderColumn(new_rows, column_idx.val,
                                       Head(column_renderers).renderer_type, 1)
                 IN IF ~IsNone(r.exc) THEN r
                    ELSE RenderColumns(r.rows, headers, Tail(column_renderers))

\* TableBlock.render_rows: what it returns or raises (ret; a returned list
\* tells whether it is self.rows itself), and self.rows afterwards (rows)
render_rows(obj) ==
    IF IsNone(obj.column_renderers)
    THEN [ret |-> Return([rows |-> obj.rows, is_self_rows |-> TRUE]), rows |-> obj.rows]
    ELSE LET new_rows == deepcopy(obj.rows)
             r == RenderColumns(new_rows.val, obj.headers, obj.column_renderers.items)
         IN [ret |-> IF IsNone(r.exc)
                     THEN Return([rows |-> r.rows, is_self_rows |-> new_rows.alias])
                     ELSE r.exc,
             rows |-> IF new_rows.alias THEN r.rows ELSE obj.rows]

\* tabulate(rendered_rows, headers=, tablefmt="presto", maxcolwidths=): the
\* text of the table, kept as the arguments it is rendered from
tabulate(rendered_rows, headers, maxcolwidths) ==
    [rows |-> rendered_rows, headers |-> headers, tablefmt |-> "presto",
     maxcolwidths |-> maxcolwidths]

\* TableBlock.to_table_string: ret and self.rows afterwards, as render_rows
to_table_string(obj, table_max_width) ==
    LET rr == render_rows(obj)
    IN IF rr.ret.t = "raise" THEN rr
       ELSE LET rendered_rows == to_strings_rows(rr.ret.val.rows)
                col_max_width == calc_max_width(obj.headers, rendered_rows, table_max_width)
            IN [ret |-> IF col_max_width.t = "raise" THEN col_max_width
                        ELSE Return(tabulate(rendered_rows, obj.headers, col_max_width.val)),
                rows |-> rr.rows]

\* the column names, the row values and the renderers of the model's tables
ColumnNames == {<<"a">>, <<"t", "i", "m", "e">>}

Cells == {PyInt(7), Str(<<"a", "b", "c", "d", "e", "f">>)}

\* the dicts of renderers: None, and every dict of at most two of these keys,
\* one of which is no column name
RendererKeys == {<<"a">>, <<"z", "z">>}

ColumnRenderers ==
    {None} \cup
    {[t |-> "dict", items |-> items] :
        items \in {it \in SeqUpTo([column_name : RendererKeys, renderer_type : {"DATETIME"}], 2) :
                     \A i, j \in 1..Len(it) : i # j => it[i].column_name # it[j].column_name}}

\* the headers: as many as there are column names, a name twice included
Headers == SeqUpTo(ColumnNames, Cardinality(ColumnNames))

\* the lists of rows: all rows of a table have the same number of values,
\* which need not be the number of headers
RowLists ==
    UNION {SeqUpTo([1..n -> Cells], MaxRows) : n \in 0..Cardinality(ColumnNames)}

\* TableBlock(rows, headers, column_renderers), table_name left to its default
NewTableBlock ==
    /\ call.op = "none"
    /\ \E rows \in RowLists, headers \in Headers,
          column_renderers \in ColumnRenderers :
           /\ self' = TableBlock(rows, headers, column_renderers, <<>>)
           /\ call' = [op |-> "TableBlock"]
           /\ ret' = NoResult

\* self.render_rows() on a TableBlock
RenderRows ==
    /\ self.cls = "TableBlock"
    /\ LET r == render_rows(self)
       IN /\ self' = [self EXCEPT !.rows = r.rows]
          /\ call' = [op |-> "TableBlock.render_rows"]
          /\ ret' = r.ret

\* self.to_table_string(table_max_width) on a TableBlock
ToTableString ==
    /\ self.cls = "TableBlock"
    /\ \E table_max_width \in 0..MaxTableWidth :
           /\ LET r == to_table_string(self, table_max_width)
              IN /\ self' = [self EXCEPT !.rows = r.rows]
                 /\ call' = [op |-> "TableBlock.to_table_string",
                             table_max_width |-> table_max_width]
                 /\ ret' = r.ret

RECURSIVE splitlines(_)
\* str.splitlines() for the line boundaries "\n", "\r" and "\r\n"
splitlines(s) ==
    LET breaks == {i \in 1..Len(s) : s[i] \in {"\n", "\r"}}
    IN IF s = <<>> THEN <<>>
       ELSE IF breaks = {} THEN <<s>>
       ELSE LET i == Min(breaks)
                next == IF s[i] = "\r" /\ i < Len(s) /\ s[i + 1] = "\n" THEN i + 2 ELSE i + 1
            IN <<SubSeq(s, 1, i - 1)>> \o splitlines(SubSeq(s, next, Len(s)))

RECURSIVE LinesToInclude_NewlineForgotten(_, _, _, _)
\* a slip in the count: the newline before a line is not counted
LinesToInclude_NewlineForgotten(lines, max_chars, length_so_far, lines_to_include) ==
    IF lines = <<>> THEN lines_to_include
    ELSE LET new_length == length_so_far + Len(Head(lines))
         IN IF new_length > max_chars THEN lines_to_include
            ELSE LinesToInclude_NewlineForgotten(Tail(lines), max_chars, new_length,
                                                 lines_to_include + 1)

RECURSIVE LinesToInclude(_, _, _, _)
\* lines 281-287: the loop over the lines, left at the first that does not fit
LinesToInclude(lines, max_chars, length_so_far, lines_to_include) ==
    IF lines = <<>> THEN lines_to_include
    ELSE LET new_length == length_so_far + Len(<<"\n">>) + Len(Head(lines))
         IN IF new_length > max_chars THEN lines_to_include
            ELSE LinesToInclude(Tail(lines), max_chars, new_length, lines_to_include + 1)

\* TableBlock.__trim_rows
trim_rows(contents, max_chars) ==
    IF Len(contents) <= max_chars THEN contents
    ELSE LET truncator == <<"\n", ".", ".", ".">>
             lines == splitlines(contents)
             lines_to_include == LinesToInclude(lines, max_chars - Len(truncator), 0, 0)
         IN Join(<<"\n">>, SubSeq(lines, 1, lines_to_include)) \o truncator

\* the contents the model hands to __trim_rows
Contents ==
    SeqUpTo({"a", "\n"}, MaxLen) \cup SeqUpTo({"a", "\n", "\r"}, MaxCrLen)

\* TableBlock.__trim_rows(contents, max_chars); max_chars is negative when
\* to_markdown is given less than the code fence takes
TrimRows ==
    /\ call.op = "none"
    /\ \E contents \in Contents, max_chars \in (-1)..MaxChars :
           /\ call' = [op |-> "TableBlock.__trim_rows", contents |-> contents,
                       max_chars |-> max_chars]
           /\ ret' = Return(trim_rows(contents, max_chars))
           /\ UNCHANGED self

----------------------------------------------------------------------------
(* TableBlock.to_markdown *)

\* PRINTED_TABLE_MAX_WIDTH, the default of table_max_width, set by the
\* environment: here the widest the model's tables are given
PRINTED_TABLE_MAX_WIDTH == MaxTableWidth

\* the texts tabulate may render a table to, tabulate being a library: one
\* line or more, of one width
TableStrings ==
    {Join(<<"\n">>, [i \in 1..n |-> Fill("a", LineWidth)]) : n \in 1..MaxLines}

\* the names of the tables rendered to markdown: none (the default), and one
TableNames == {<<>>, <<"t">>}

\* TableBlock(rows, headers, table_name=table_name) for the tables rendered to
\* markdown: of one row at most, and of no renderers
NewNamedTableBlock ==
    /\ call.op = "none"
    /\ \E rows \in {r \in RowLists : Len(r) <= 1}, headers \in Headers,
          table_name \in TableNames :
           /\ self' = TableBlock(rows, headers, None, table_name)
           /\ call' = [op |-> "TableBlock"]
           /\ ret' = NoResult

\* TableBlock.to_markdown, where table_string is the text tabulate renders:
\* ret and self.rows afterwards, as render_rows. The three characters of the
\* code fence are written "'", the grave accent being no character of a
\* string here.
to_markdown(obj, max_chars, add_table_header, table_string) ==
    LET table_header == IF obj.table_name # <<>> THEN obj.table_name \o <<"\n">> ELSE <<>>
        header == IF ~add_table_header THEN <<>> ELSE table_header
        prefix == header \o <<"'", "'", "'", "\n">>
        suffix == <<"\n", "'", "'", "'">>
        r == to_table_string(obj, PRINTED_TABLE_MAX_WIDTH)
        table_contents ==
            IF IsNone(max_chars) THEN table_string
            ELSE trim_rows(table_string, max_chars.n - Len(prefix) - Len(suffix))
    IN IF r.ret.t = "raise" THEN r
       ELSE [ret |-> MarkdownBlock(prefix \o table_contents \o suffix, FALSE),
             rows |-> r.rows]

\* self.to_markdown(max_chars, add_table_header) on a TableBlock
ToMarkdown ==
    /\ self.cls = "TableBlock"
    /\ \E max_chars \in {None} \cup {PyInt(n) : n \in 0..MaxMarkdownChars},
          add_table_header \in BOOLEAN, table_string \in TableStrings :
           /\ LET r == to_markdown(self, max_chars, add_table_header, table_string)
              IN /\ self' = [self EXCEPT !.rows = r.rows]
                 /\ call' = [op |-> "TableBlock.to_markdown", max_chars |-> max_chars,
                             add_table_header |-> add_table_header,
                             table_string |-> table_string]
                 /\ ret' = r.ret

----------------------------------------------------------------------------
(* ScanReportBlock *)

RECURSIVE DigitsToInt(_)
\* the number a str of decimal digits denotes
DigitsToInt(s) ==
    LET value(c) == CHOOSE d \in 0..9 : IntToStr(d) = <<c>>
    IN IF Len(s) = 1 THEN value(s[1])
       ELSE 10 * DigitsToInt(SubSeq(s, 1, Len(s) - 1)) + value(s[Len(s)])

\* int(s) of a str: its value when it is decimal digits after an optional
\* sign, ValueError otherwise
int(s) ==
    LET signed == s # <<>> /\ s[1] \in {"-", "+"}
        digits == IF signed THEN Tail(s) ELSE s
        isDigit(c) == \E d \in 0..9 : IntToStr(d) = <<c>>
    IN IF digits # <<>> /\ \A i \in 1..Len(digits) : isDigit(digits[i])
       THEN Return(IF signed /\ s[1] = "-" THEN -DigitsToInt(digits) ELSE DigitsToInt(digits))
       ELSE Raise("ValueError", "int")

\* ScanReportBlock, as far as grade() reads it: the score, a str
ScanReportBlock(score) == [cls |-> "ScanReportBlock", score |-> score]

\* a slip in the first threshold: a score of 90 is no A
grade_AAbove90(obj) ==
    LET score == int(obj.score)
    IN IF score.t = "raise" THEN score
       ELSE IF score.val > 90 THEN Return("A")
       ELSE IF score.val >= 80 THEN Return("B")
       ELSE IF score.val >= 70 THEN Return("C")
       ELSE IF score.val >= 60 THEN Return("D")
       ELSE IF score.val >= 50 THEN Return("E")
       ELSE Return("F")

\* ScanReportBlock.grade
grade(obj) ==
    LET score == int(obj.score)
    IN IF score.t = "raise" THEN score
       ELSE IF score.val >= 90 THEN Return("A")
       ELSE IF score.val >= 80 THEN Return("B")
       ELSE IF score.val >= 70 THEN Return("C")
       ELSE IF score.val >= 60 THEN Return("D")
       ELSE IF score.val >= 50 THEN Return("E")
       ELSE Return("F")

\* the scores of the model's reports: every integer from 0 on, a negative
\* one, and one that is no integer
Scores ==
    {IntToStr(n) : n \in 0..MaxScore} \cup {<<"-", "5">>, <<"8", "9", ".", "5">>}

\* ScanReportBlock(score=score, ...)
NewScanReportBlock ==
    /\ call.op = "none"
    /\ \E score \in Scores :
           /\ self' = ScanReportBlock(score)
           /\ call' = [op |-> "ScanReportBlock"]
           /\ ret' = NoResult

\* self.grade() on a ScanReportBlock
Grade ==
    /\ self.cls = "ScanReportBlock"
    /\ call' = [op |-> "ScanReportBlock.grade"]
    /\ ret' = grade(self)
    /\ UNCHANGED self

----------------------------------------------------------------------------
(* resource_events_diff *)

\* what a call that returns None produced: the calls it made on the sinks
Handled(calls) == [t |-> "return", val |-> None, calls |-> calls]

\* is_pod_finished(pod), extract_ready_pods(resource) and
\* extract_total_pods(resource) of robusta.api: what the cluster reports of
\* the resource, kept in the resource itself
is_pod_finished(pod) == pod.finished

extract_ready_pods(resource) == resource.ready

extract_total_pods(resource) == resource.total

\* ServiceInfo(...), as far as resource_events_diff fills it
ServiceInfo(resource_version, name, namespace, service_type, ready_pods, total_pods) ==
    [resource_version |-> resource_version,
     name |-> name,
     namespace |-> namespace,
     service_type |-> service_type,
     ready_pods |-> ready_pods,
     total_pods |-> total_pods]

RECURSIVE HandleServiceDiff(_, _, _, _)
\* lines 288-291: the loop over event.named_sinks, calling the sinks that
\* all_sinks holds
HandleServiceDiff(named_sinks, all_sinks, new_service, operation) ==
    IF named_sinks = <<>> THEN <<>>
    ELSE LET sink_name == Head(named_sinks)
             found == ~IsNone(all_sinks) /\ all_sinks.keys # {} /\ sink_name \in all_sinks.keys
         IN (IF found
             THEN <<[sink |-> sink_name, new_service |-> new_service, operation |-> operation]>>
             ELSE <<>>)
            \o HandleServiceDiff(Tail(named_sinks), all_sinks, new_service, operation)

\* resource_events_diff(event): the calls of handle_service_diff it makes
resource_events_diff(event) ==
    LET new_resource == event.obj
        meta == new_resource.metadata
    IN IF /\ new_resource.kind \in {"Deployment", "DaemonSet", "StatefulSet", "ReplicaSet", "Pod"}
          /\ (IsNone(meta.ownerReferences) \/ meta.ownerReferences.items = <<>>)
       THEN IF new_resource.kind = "Pod" /\ is_pod_finished(new_resource) THEN <<>>
            ELSE IF /\ new_resource.kind = "ReplicaSet"
                    /\ (IsNone(new_resource.replicas) \/ new_resource.replicas.n = 0)
            THEN <<>>
            ELSE LET ready_pods == extract_total_pods(new_resource)
                     total_pods == extract_ready_pods(new_resource)
                     resource_version ==
                         IF ~IsNone(meta.resourceVersion) /\ meta.resourceVersion.s # <<>>
                         THEN int(meta.resourceVersion.s).val ELSE 0
                     new_service == ServiceInfo(resource_version, meta.name, meta.namespace,
                                                new_resource.kind, ready_pods, total_pods)
                 IN HandleServiceDiff(event.named_sinks, event.get_all_sinks, new_service,
                                      event.operation)
       ELSE <<>>

\* the resources of the model's events: of the five kinds of workload and of
\* one other kind, a Pod finished or not, a ReplicaSet of no, zero or some
\* replicas, with no, an empty or a non-empty list of owners
Metadata ==
    [name : {"n"}, namespace : {"ns"},
     ownerReferences : {None, [t |-> "list", items |-> <<>>],
                        [t |-> "list", items |-> <<"owner">>]},
     resourceVersion : {None, Str(<<>>), Str(<<"1", "2">>)}]

Resources ==
    {res \in [kind : {"Deployment", "DaemonSet", "StatefulSet", "ReplicaSet", "Pod", "Job"},
              metadata : Metadata,
              finished : BOOLEAN,
              replicas : {None, PyInt(0), PyInt(MaxPods)},
              ready : 0..MaxPods,
              total : 0..MaxPods] :
        /\ res.ready <= res.total
        /\ res.finished => res.kind = "Pod"
        /\ ~IsNone(res.replicas) => res.kind = "ReplicaSet"}

\* the names of the sinks, and what event.get_all_sinks() returns: None, or
\* the sinks registered, by name
SinkNames == {"a", "b"}

AllSinks == {None} \cup {[t |-> "dict", keys |-> names] : names \in SUBSET SinkNames}

\* resource_events_diff(event)
ResourceEventsDiff ==
    /\ call.op = "none"
    /\ \E obj \in Resources, named_sinks \in SeqUpTo(SinkNames, Cardinality(SinkNames)),
          all_sinks \in AllSinks, operation \in {"create", "update"} :
           LET event == [obj |-> obj, named_sinks |-> named_sinks,
                         get_all_sinks |-> all_sinks, operation |-> operation]
           IN /\ call' = [op |-> "resource_events_diff", event |-> event]
              /\ ret' = Handled(resource_events_diff(event))
              /\ UNCHANGED self

----------------------------------------------------------------------------

Init ==
    /\ self = NoObject
    /\ call = [op |-> "none"]
    /\ ret = NoResult

Next ==
    \/ NewMarkdownBlock
    \/ NewListBlock
    \/ ToMarkdownList
    \/ NewKubernetesDiffBlock
    \/ GetDescription
    \/ NewTableBlock
    \/ RenderRows
    \/ ToTableString
    \/ TrimRows
    \/ NewScanReportBlock
    \/ Grade
    \/ ResourceEventsDiff

Spec == Init /\ [][Next]_vars

\* to_markdown and the trimming it relies on, over tables of at most one row
NextToMarkdown ==
    \/ NewNamedTableBlock
    \/ ToMarkdown
    \/ TrimRows

SpecToMarkdown == Init /\ [][NextToMarkdown]_vars

----------------------------------------------------------------------------
(* The claims. *)

\* C1: for every text given without dedent, the stored text is at most
\* 2997 + 3 characters long, and a text of at most 2997 characters
\* (2997 included) is stored verbatim, with no ellipsis.
C1_StoredTextCappedAndShortVerbatim ==
    (call.op = "MarkdownBlock" /\ ~call.dedent /\ self.cls = "MarkdownBlock") =>
        /\ Len(self.text) <= 2997 + 3
        /\ Len(call.text) <= 2997 => self.text = call.text

\* C2: get_description() is "Resource created" for old=None and a new
\* object, "Resource deleted" for an old object and new=None, and the
\* summary of the three counts only when both snapshots are present.
C2_DescriptionBySnapshots ==
    call.op = "KubernetesDiffBlock.get_description" =>
        LET noOld == IsNone(self.old_obj)
            noNew == IsNone(self.new_obj)
        IN /\ (noOld /\ ~noNew) => ret.val = <<"Resource created">>
           /\ (~noOld /\ noNew) => ret.val = <<"Resource deleted">>
           /\ ret.val[1] = "Updates to significant fields: " => (~noOld /\ ~noNew)

\* C7: the three counts of a KubernetesDiffBlock add up to the number of
\* change records; additions are the ADDED ones, deletions the REMOVED ones,
\* modifications all the others, and none is negative.
C7_CountsPartitionChanges ==
    call.op = "KubernetesDiffBlock" =>
        LET n == Len(call.interesting_diffs)
            of(T) == {i \in 1..n : call.interesting_diffs[i].diff_type \in T}
        IN /\ self.num_additions + self.num_deletions + self.num_modifications = n
           /\ self.num_additions = Cardinality(of({"ADDED"}))
           /\ self.num_deletions = Cardinality(of({"REMOVED"}))
           /\ self.num_modifications = Cardinality(of(DiffTypes \ {"ADDED", "REMOVED"}))
           /\ self.num_additions >= 0
           /\ self.num_deletions >= 0
           /\ self.num_modifications >= 0

\* C7's case: a block built from additions, deletions and modifications
C7_Witness ==
    /\ call.op = "KubernetesDiffBlock"
    /\ Len(call.interesting_diffs) = 3
    /\ self.num_additions = 1
    /\ self.num_deletions = 1
    /\ self.num_modifications = 1

RECURSIVE Bulleted(_)
\* every item in order, each after "* ", with one newline between two items
Bulleted(items) ==
    IF items = <<>> THEN <<>>
    ELSE <<"*", " ">> \o Head(items)
            \o (IF Len(items) > 1 THEN <<"\n">> \o Bulleted(Tail(items)) ELSE <<>>)

\* C10 as stated: to_markdown()'s text is the bulleted items, for every list.
C10_TextIsBulletedItems ==
    call.op = "ListBlock.to_markdown" => ret.val.text = Bulleted(self.items)

\* C10: to_markdown()'s text is the bulleted items when they are shorter than
\* the 2997 characters of the block size limit, and otherwise their first
\* 2997 characters followed by "...".
C10_TextIsBulletedItemsWithinLimit ==
    call.op = "ListBlock.to_markdown" =>
        LET b == Bulleted(self.items)
        IN /\ ret.t = "return"
           /\ ret.val.cls = "MarkdownBlock"
           /\ Len(b) < 2997 => ret.val.text = b
           /\ Len(b) >= 2997 => ret.val.text = SubSeq(b, 1, 2997) \o <<".", ".", ".">>

\* C10's case: the list ["a", "b"] converted
C10_Witness ==
    /\ call.op = "ListBlock.to_markdown"
    /\ self.items = <<(<<"a">>), (<<"b">>)>>
    /\ ret.val.text = <<"*", " ", "a", "\n", "*", " ", "b">>

RECURSIVE LengthOfLines(_)
\* the characters of the lines, one newline counted with each of them
LengthOfLines(lines) ==
    IF lines = <<>> THEN 0 ELSE Len(Head(lines)) + 1 + LengthOfLines(Tail(lines))

\* the first K lines joined by newlines, then the suffix "\n..."
FirstLinesAndSuffix(lines, K) ==
    Join(<<"\n">>, SubSeq(lines, 1, K)) \o <<"\n", ".", ".", ".">>

\* C3 as stated: contents longer than max_chars comes back as its first K
\* lines and the suffix, K the largest number of leading lines that fit under
\* max_chars together with the suffix; shorter contents comes back unchanged.
C3_TrimKeepsEveryLineThatFits ==
    call.op = "TableBlock.__trim_rows" =>
        LET lines == splitlines(call.contents)
            K == Max({0} \cup {k \in 0..Len(lines) :
                         Len(FirstLinesAndSuffix(lines, k)) <= call.max_chars})
        IN IF Len(call.contents) <= call.max_chars
           THEN ret.val = call.contents
           ELSE ret.val = FirstLinesAndSuffix(lines, K)

\* C3: contents longer than max_chars comes back as its first K whole lines
\* joined by newlines and the suffix "\n...", K the largest number of leading
\* lines whose lengths, a newline counted with each, sum to at most
\* max_chars - 4 (0 when there is none); shorter contents comes back unchanged.
C3_TrimKeepsLeadingWholeLines ==
    call.op = "TableBlock.__trim_rows" =>
        LET lines == splitlines(call.contents)
            K == Max({0} \cup {k \in 0..Len(lines) :
                         LengthOfLines(SubSeq(lines, 1, k)) <= call.max_chars - 4})
        IN IF Len(call.contents) <= call.max_chars
           THEN ret.val = call.contents
           ELSE ret.val = FirstLinesAndSuffix(lines, K)

\* C3's case: two lines of three kept and the third dropped
C3_Witness ==
    /\ call.op = "TableBlock.__trim_rows"
    /\ Len(call.contents) > call.max_chars
    /\ Len(splitlines(call.contents)) = 3
    /\ ret.val = <<"a", "\n", "a", "\n", ".", ".", ".">>

\* the natural width of every column: the longest of its header and of the
\* strings of its values
NaturalWidths(headers, rendered_rows) ==
    [j \in 1..Len(headers) |->
        Max({Len(headers[j])} \cup
            {Len(rendered_rows[i][j].s) :
                i \in {k \in 1..Len(rendered_rows) : j <= Len(rendered_rows[k])}})]

\* to_table_string got as far as __calc_max_width, on a table none of whose
\* rows has more values than there are headers
WidthsComputed ==
    /\ call.op = "TableBlock.to_table_string"
    /\ ret.t = "return" \/ ret.at = "TableBlock.__calc_max_width"
    /\ \A i \in 1..Len(self.rows) : Len(self.rows[i]) <= Len(self.headers)

\* C4: natural widths that sum to at most table_max_width are returned
\* unchanged.
C4_NaturalWidthsKept ==
    WidthsComputed =>
        /\ ret.t = "return"
        /\ LET natural == NaturalWidths(self.headers, ret.val.rows)
           IN sum(natural) <= call.table_max_width => ret.val.maxcolwidths = natural

\* C4's case: two columns of different natural widths that just fit
C4_Witness ==
    /\ WidthsComputed
    /\ ret.t = "return"
    /\ ret.val.maxcolwidths = <<4, 2>>
    /\ NaturalWidths(self.headers, ret.val.rows) = <<4, 2>>
    /\ call.table_max_width = 6

\* C5: when the natural widths sum to more than table_max_width and the
\* overflow is at most the widest width, the first widest column is reduced
\* by the overflow, the others keep their natural widths, and the widths sum
\* to table_max_width.
C5_OnlyWidestShrinks ==
    WidthsComputed =>
        /\ ret.t = "return"
        /\ LET natural == NaturalWidths(self.headers, ret.val.rows)
               overflow == sum(natural) - call.table_max_width
               cols == 1..Len(natural)
               widest == Min({j \in cols : \A k \in cols : natural[k] <= natural[j]})
           IN (overflow > 0 /\ overflow <= natural[widest]) =>
                 /\ ret.val.maxcolwidths = [natural EXCEPT ![widest] = natural[widest] - overflow]
                 /\ \A j \in cols \ {widest} : ret.val.maxcolwidths[j] = natural[j]
                 /\ ret.val.maxcolwidths[widest] < natural[widest]
                 /\ sum(ret.val.maxcolwidths) = call.table_max_width

\* C5's case: two columns of the same natural width, the first one shrunk
C5_Witness ==
    /\ WidthsComputed
    /\ ret.t = "return"
    /\ NaturalWidths(self.headers, ret.val.rows) = <<4, 4>>
    /\ ret.val.maxcolwidths = <<1, 4>>

\* C6: whenever the widest column reduced by the overflow would be negative,
\* every column gets the width floor(table_max_width / column_count).
C6_EqualWidthsFallback ==
    WidthsComputed =>
        /\ ret.t = "return"
        /\ LET natural == NaturalWidths(self.headers, ret.val.rows)
               overflow == sum(natural) - call.table_max_width
               cols == 1..Len(natural)
           IN (overflow > 0 /\ \A j \in cols : natural[j] - overflow < 0) =>
                 /\ Len(ret.val.maxcolwidths) = Len(natural)
                 /\ \A j \in cols :
                       ret.val.maxcolwidths[j] = call.table_max_width \div Len(natural)

\* C6's case: two columns that get width 1 each of a table_max_width of 3
C6_Witness ==
    /\ WidthsComputed
    /\ ret.t = "return"
    /\ call.table_max_width = 3
    /\ NaturalWidths(self.headers, ret.val.rows) = <<4, 6>>
    /\ ret.val.maxcolwidths = <<1, 1>>

\* the rows render_rows is to return: every value of a column that has a
\* renderer replaced by the renderer's output, the others as they are
RenderedRows(obj) ==
    IF IsNone(obj.column_renderers) THEN obj.rows
    ELSE LET items == obj.column_renderers.items
             column(k) == Min({j \in 1..Len(obj.headers) :
                                 obj.headers[j] = items[k].column_name})
         IN [i \in 1..Len(obj.rows) |->
               [j \in 1..Len(obj.rows[i]) |->
                  IF \E k \in 1..Len(items) : column(k) = j
                  THEN render_value(
                           items[CHOOSE k \in 1..Len(items) : column(k) = j].renderer_type,
                           obj.rows[i][j])
                  ELSE obj.rows[i][j]]]

\* C8: render_rows() leaves the rows attribute as it was, whatever the
\* column_renderers and however often it is called; the substituted values
\* are in the returned rows only.
C8_RenderRowsKeepsRows ==
    [][call'.op = "TableBlock.render_rows" =>
          /\ self'.rows = self.rows
          /\ ret'.t = "return" => ret'.val.rows = RenderedRows(self)]_vars

\* C8's case: render_rows() has returned rows with a substituted value
C8_Witness ==
    /\ call.op = "TableBlock.render_rows"
    /\ ret.t = "return"
    /\ ret.val.rows # self.rows
    /\ ret.val.rows[1][1] = render_value("DATETIME", self.rows[1][1])

\* some key of the table's column_renderers is not one of its headers
UnknownColumn(obj) ==
    /\ ~IsNone(obj.column_renderers)
    /\ \E k \in 1..Len(obj.column_renderers.items) :
          \A j \in 1..Len(obj.headers) :
              obj.headers[j] # obj.column_renderers.items[k].column_name

\* C9: render_rows() on a table with a renderer for a column that is not in
\* headers raises a lookup error (ValueError of the header lookup, or
\* IndexError where a row is too short for an earlier renderer's column)
\* instead of returning rows, and leaves the rows attribute as it was.
C9_UnknownColumnRaises ==
    [][(call'.op = "TableBlock.render_rows" /\ UnknownColumn(self)) =>
          /\ ret'.t = "raise"
          /\ \/ ret'.exc = "ValueError"
             \/ /\ ret'.exc = "IndexError"
                /\ \E i \in 1..Len(self.rows) : Len(self.rows[i]) < Len(self.headers)
          /\ self'.rows = self.rows]_vars

\* C9's case: the lookup fails after a first renderer was applied to the rows
C9_Witness ==
    /\ call.op = "TableBlock.render_rows"
    /\ ret.t = "raise"
    /\ ret.exc = "ValueError"
    /\ UnknownColumn(self)
    /\ Len(self.column_renderers.items) = 2
    /\ self.headers # <<>>
    /\ self.column_renderers.items[1].column_name = self.headers[1]
    /\ self.rows # <<>>
    /\ self.rows[1] # <<>>

\* C11: grade() maps every integer score 0..100 to its letter: 90 and above
\* A, 80..89 B, 70..79 C, 60..69 D, 50..59 E, below 50 F; so 90 gives A,
\* 89 B, 50 E and 10 F.
C11_GradeByThresholds ==
    call.op = "ScanReportBlock.grade" =>
        /\ \A n \in 0..100 :
              self.score = IntToStr(n) =>
                  /\ ret.t = "return"
                  /\ ret.val = <<"F", "F", "F", "F", "F", "E", "D", "C", "B", "A", "A">>
                                   [(n \div 10) + 1]
        /\ self.score = <<"9", "0">> => ret.val = "A"
        /\ self.score = <<"8", "9">> => ret.val = "B"
        /\ self.score = <<"5", "0">> => ret.val = "E"
        /\ self.score = <<"1", "0">> => ret.val = "F"

\* C11's case: a score on a threshold graded
C11_Witness ==
    /\ call.op = "ScanReportBlock.grade"
    /\ self.score = <<"9", "0">>
    /\ ret.val = "A"

\* C12: whatever the contents and max_chars, values below the four characters
\* of the "\n..." suffix included, what __trim_rows returns is at most
\* max_chars long, and so is the text of to_markdown(max_chars).
C12_WithinMaxChars ==
    /\ call.op = "TableBlock.__trim_rows" => Len(ret.val) <= call.max_chars
    /\ (/\ call.op = "TableBlock.to_markdown"
        /\ ~IsNone(call.max_chars)
        /\ ret.t = "return")
       => Len(ret.val.text) <= call.max_chars.n

\* C13: for every table whose rows all have the same number of values, a
\* table of no headers (the default) and a row of values included, the widths
\* that to_table_string computes are computed without an error, one width
\* per column.
C13_WidthsOfEveryUniformTable ==
    (/\ call.op = "TableBlock.to_table_string"
     /\ ret.t = "return" \/ ret.at = "TableBlock.__calc_max_width")
    => /\ ret.t = "return"
       /\ Len(ret.val.maxcolwidths) =
              Max({Len(self.headers)} \cup {Len(self.rows[i]) : i \in 1..Len(self.rows)})

\* C14: the ServiceInfo that resource_events_diff hands to handle_service_diff
\* of each named sink carries in ready_pods what extract_ready_pods yields
\* and in total_pods what extract_total_pods yields; and no sink is called
\* for a resource that has owner references, for a finished Pod or for a
\* ReplicaSet of zero replicas.
C14_SinksGetReadyAndTotalPods ==
    call.op = "resource_events_diff" =>
        LET obj == call.event.obj
            owned == /\ ~IsNone(obj.metadata.ownerReferences)
                     /\ obj.metadata.ownerReferences.items # <<>>
            zero == obj.kind = "ReplicaSet" /\ ~IsNone(obj.replicas) /\ obj.replicas.n = 0
        IN /\ \A i \in 1..Len(ret.calls) :
                 /\ ret.calls[i].new_service.ready_pods = extract_ready_pods(obj)
                 /\ ret.calls[i].new_service.total_pods = extract_total_pods(obj)
           /\ (owned \/ (obj.kind = "Pod" /\ obj.finished) \/ zero) => ret.calls = <<>>

====
